---- MODULE Spec2Model ----
(***************************************************************************)
(* The ChannelBank stage of the derivation pipeline                        *)
(* (crates/derive/src/stages/channel_bank.rs).                             *)
(*                                                                         *)
(* The bank owns a map ChannelID -> Channel and a FIFO queue of the same   *)
(* ids.  Options are modelled as sequences of length at most one: <<>> is  *)
(* None and <<x>> is Some(x).  Queue indices are 0-based as in the source, *)
(* so the element at index i is channel_queue[i + 1] here.                 *)
(***************************************************************************)
EXTENDS Integers, Sequences, FiniteSets, TLC

VARIABLES
    channels,       \* self.channels: map ChannelID -> Channel
    channel_queue,  \* self.channel_queue: ids in FIFO order
    origin,         \* self.prev.origin(): Option<BlockInfo>
    last            \* the last completed call: operation, argument, result

vars == <<channels, channel_queue, origin, last>>

----------------------------------------------------------------------------
(* Bounds of the model *)

NumChannelIDs == 2
MaxFrameNumber == 1
MaxBlockNumber == 2

(* Program constants, scaled to the model's frame sizes *)

MaxChannelBankSize == 5
FrameOverhead == 1
BlockTime == 2

(* self.cfg, the rollup configuration: immutable for the pipeline's life *)

ChannelTimeout == 0
CanyonTime == 4
cfg == [channel_timeout |-> ChannelTimeout, canyon_time |-> <<CanyonTime>>]

ChannelIDs == 1..NumChannelIDs
FrameNumbers == 0..MaxFrameNumber
Payloads == {<<7>>, <<8, 9>>}

Frames ==
    [id : ChannelIDs, number : FrameNumbers, data : Payloads, is_last : BOOLEAN]

----------------------------------------------------------------------------
(* Results of the calls: StageResult<()> and StageResult<Option<Bytes>> *)

OkUnit == [tag |-> "Ok", data |-> <<>>, msg |-> ""]
OkNone == [tag |-> "OkNone", data |-> <<>>, msg |-> ""]
OkSome(d) == [tag |-> "OkSome", data |-> d, msg |-> ""]
OkBytes(d) == [tag |-> "OkBytes", data |-> d, msg |-> ""]
Eof == [tag |-> "Eof", data |-> <<>>, msg |-> ""]
NotEnoughData == [tag |-> "NotEnoughData", data |-> <<>>, msg |-> ""]
Custom(m) == [tag |-> "Custom", data |-> <<>>, msg |-> m]
Panic == [tag |-> "Panic", data |-> <<>>, msg |-> "index out of bounds"]

IsOk(r) == r.tag \in {"Ok", "OkNone", "OkSome", "OkBytes"}

----------------------------------------------------------------------------
(* Maps *)

MapRemove(m, k) == [x \in DOMAIN m \ {k} |-> m[x]]
MapInsert(m, k, v) == [x \in DOMAIN m \cup {k} |-> IF x = k THEN v ELSE m[x]]

----------------------------------------------------------------------------
(* Channel *)

ChannelNew(id, o) ==
    [id |-> id, open_block_number |-> o.number, inputs |-> <<>>,
     highest_seen_is_last |-> <<>>, estimated_size |-> 0]

FrameSize(data) == Len(data) + FrameOverhead

RECURSIVE SumFrameSizes(_, _)
SumFrameSizes(inputs, nums) ==
    IF nums = {} THEN 0
    ELSE LET n == CHOOSE x \in nums : TRUE
         IN FrameSize(inputs[n]) + SumFrameSizes(inputs, nums \ {n})

\* Whether add_frame rejects the frame; a rejected frame leaves the channel
\* untouched.  Rejected: a frame of another channel, a frame number already
\* held with other bytes, and, once a terminal frame has fixed the length, a
\* frame beyond it or a second terminal frame.
AddFrameRejects(ch, frame) ==
    \/ frame.id # ch.id
    \/ /\ frame.number \in DOMAIN ch.inputs
       /\ ch.inputs[frame.number] # frame.data
    \/ /\ frame.number \notin DOMAIN ch.inputs
       /\ ch.highest_seen_is_last # <<>>
       /\ \/ frame.is_last
          \/ frame.number > ch.highest_seen_is_last[1]

\* The channel after an accepted frame.  A frame already held with the same
\* bytes changes nothing.  A terminal frame fixes the channel's length and
\* the frames beyond it are no longer part of the channel.
AddFrameAccept(ch, frame) ==
    IF frame.number \in DOMAIN ch.inputs THEN ch
    ELSE
        LET kept == IF frame.is_last
                    THEN {n \in DOMAIN ch.inputs : n < frame.number}
                    ELSE DOMAIN ch.inputs
            dropped == DOMAIN ch.inputs \ kept
            inputs2 == [n \in kept \cup {frame.number} |->
                            IF n = frame.number THEN frame.data ELSE ch.inputs[n]]
        IN [ch EXCEPT
               !.inputs = inputs2,
               !.highest_seen_is_last =
                   IF frame.is_last THEN <<frame.number>> ELSE @,
               !.estimated_size =
                   @ + FrameSize(frame.data) - SumFrameSizes(ch.inputs, dropped)]

IsReady(ch) ==
    /\ ch.highest_seen_is_last # <<>>
    /\ \A n \in 0..ch.highest_seen_is_last[1] : n \in DOMAIN ch.inputs

RECURSIVE ConcatFrames(_, _, _)
ConcatFrames(inputs, n, hi) ==
    IF n > hi THEN <<>>
    ELSE inputs[n] \o ConcatFrames(inputs, n + 1, hi)

\* frame_data: Ok(bytes) in frame_number order, or an error when a frame of
\* the channel is missing.
FrameDataOk(ch) == IsReady(ch)
FrameData(ch) == ConcatFrames(ch.inputs, 0, ch.highest_seen_is_last[1])

----------------------------------------------------------------------------
(* RollupConfig and BlockInfo *)

IsCanyonActive(c, timestamp) ==
    /\ c.canyon_time # <<>>
    /\ timestamp >= c.canyon_time[1]

BlockInfos ==
    {[number |-> n, timestamp |-> n * BlockTime] : n \in 0..MaxBlockNumber}

NextBlock(o) == [number |-> o.number + 1, timestamp |-> o.timestamp + BlockTime]

TimedOut(c, ch, o) == ch.open_block_number + c.channel_timeout < o.number

----------------------------------------------------------------------------
(* ChannelBank *)

RECURSIVE SumSizes(_, _)
SumSizes(chs, ids) ==
    IF ids = {} THEN 0
    ELSE LET id == CHOOSE x \in ids : TRUE
         IN chs[id].estimated_size + SumSizes(chs, ids \ {id})

Size(chs) == SumSizes(chs, DOMAIN chs)

\* a prune that evicts at most one channel
PruneLoopOnce(chs, q, total_size, evicted) ==
    IF total_size > MaxChannelBankSize /\ q # <<>> /\ Head(q) \in DOMAIN chs
    THEN [channels |-> MapRemove(chs, Head(q)), queue |-> Tail(q),
          evicted |-> Append(evicted, Head(q)), ret |-> OkUnit]
    ELSE [channels |-> chs, queue |-> q, evicted |-> evicted, ret |-> OkUnit]

\* a prune that evicts the most recently inserted channel first
RECURSIVE PruneLoopNewest(_, _, _, _)
PruneLoopNewest(chs, q, total_size, evicted) ==
    IF total_size > MaxChannelBankSize /\ q # <<>> /\ q[Len(q)] \in DOMAIN chs
    THEN PruneLoopNewest(MapRemove(chs, q[Len(q)]), SubSeq(q, 1, Len(q) - 1),
                         total_size - chs[q[Len(q)]].estimated_size,
                         Append(evicted, q[Len(q)]))
    ELSE [channels |-> chs, queue |-> q, evicted |-> evicted, ret |-> OkUnit]

RECURSIVE PruneLoop(_, _, _, _)
PruneLoop(chs, q, total_size, evicted) ==
    IF total_size > MaxChannelBankSize
    THEN IF q = <<>>
         THEN [channels |-> chs, queue |-> q, evicted |-> evicted,
               ret |-> Custom("No channel to prune")]
         ELSE LET id == Head(q) IN
              IF id \notin DOMAIN chs
              THEN [channels |-> chs, queue |-> Tail(q), evicted |-> evicted,
                    ret |-> Custom("Could not find channel")]
              ELSE PruneLoop(MapRemove(chs, id), Tail(q),
                             total_size - chs[id].estimated_size,
                             Append(evicted, id))
    ELSE [channels |-> chs, queue |-> q, evicted |-> evicted, ret |-> OkUnit]

PruneBank(chs, q) == PruneLoop(chs, q, Size(chs), <<>>)

\* the channel id is queued before the origin is looked up
IngestFrameBankLateOrigin(c, chs, q, og, frame) ==
    IF og = <<>>
    THEN [channels |-> chs,
          queue |-> IF frame.id \in DOMAIN chs THEN q ELSE Append(q, frame.id),
          evicted |-> <<>>, path |-> "no_origin",
          pruned |-> FALSE, ret |-> Custom("No origin")]
    ELSE
        LET o == og[1]
            isNew == frame.id \notin DOMAIN chs
            chs1 == IF isNew THEN MapInsert(chs, frame.id, ChannelNew(frame.id, o))
                    ELSE chs
            q1 == IF isNew THEN Append(q, frame.id) ELSE q
            current_channel == chs1[frame.id]
        IN IF TimedOut(c, current_channel, o)
           THEN [channels |-> chs1, queue |-> q1, evicted |-> <<>>,
                 path |-> "timed_out", pruned |-> FALSE, ret |-> OkUnit]
           ELSE IF AddFrameRejects(current_channel, frame)
           THEN [channels |-> chs1, queue |-> q1, evicted |-> <<>>,
                 path |-> "rejected", pruned |-> FALSE, ret |-> OkUnit]
           ELSE LET chs2 == [chs1 EXCEPT ![frame.id] =
                                 AddFrameAccept(current_channel, frame)]
                    p == PruneBank(chs2, q1)
                IN [channels |-> p.channels, queue |-> p.queue,
                    evicted |-> p.evicted, path |-> "added", pruned |-> TRUE,
                    ret |-> p.ret]

\* a rejection by add_frame is returned to the caller
IngestFrameBankPropagate(c, chs, q, og, frame) ==
    IF og = <<>>
    THEN [channels |-> chs, queue |-> q, evicted |-> <<>>, path |-> "no_origin",
          pruned |-> FALSE, ret |-> Custom("No origin")]
    ELSE
        LET o == og[1]
            isNew == frame.id \notin DOMAIN chs
            chs1 == IF isNew THEN MapInsert(chs, frame.id, ChannelNew(frame.id, o))
                    ELSE chs
            q1 == IF isNew THEN Append(q, frame.id) ELSE q
            current_channel == chs1[frame.id]
        IN IF TimedOut(c, current_channel, o)
           THEN [channels |-> chs1, queue |-> q1, evicted |-> <<>>,
                 path |-> "timed_out", pruned |-> FALSE, ret |-> OkUnit]
           ELSE IF AddFrameRejects(current_channel, frame)
           THEN [channels |-> chs1, queue |-> q1, evicted |-> <<>>,
                 path |-> "rejected",
                 pruned |-> FALSE, ret |-> Custom("Failed to add frame to channel")]
           ELSE LET chs2 == [chs1 EXCEPT ![frame.id] =
                                 AddFrameAccept(current_channel, frame)]
                    p == PruneBank(chs2, q1)
                IN [channels |-> p.channels, queue |-> p.queue,
                    evicted |-> p.evicted, path |-> "added", pruned |-> TRUE,
                    ret |-> p.ret]

\* the frame's channel id is queued again although the bank holds it
IngestFrameBankRequeue(c, chs, q, og, frame) ==
    IF og = <<>>
    THEN [channels |-> chs, queue |-> q, evicted |-> <<>>, path |-> "no_origin",
          pruned |-> FALSE, ret |-> Custom("No origin")]
    ELSE
        LET o == og[1]
            isNew == frame.id \notin DOMAIN chs
            chs1 == IF isNew THEN MapInsert(chs, frame.id, ChannelNew(frame.id, o))
                    ELSE chs
            q1 == Append(q, frame.id)
            current_channel == chs1[frame.id]
        IN IF TimedOut(c, current_channel, o)
           THEN [channels |-> chs1, queue |-> q1, evicted |-> <<>>,
                 path |-> "timed_out", pruned |-> FALSE, ret |-> OkUnit]
           ELSE IF AddFrameRejects(current_channel, frame)
           THEN [channels |-> chs1, queue |-> q1, evicted |-> <<>>,
                 path |-> "rejected", pruned |-> FALSE, ret |-> OkUnit]
           ELSE LET chs2 == [chs1 EXCEPT ![frame.id] =
                                 AddFrameAccept(current_channel, frame)]
                    p == PruneBank(chs2, q1)
                IN [channels |-> p.channels, queue |-> p.queue,
                    evicted |-> p.evicted, path |-> "added", pruned |-> TRUE,
                    ret |-> p.ret]

\* a new channel's id is put at the front of the queue
IngestFrameBankPushFront(c, chs, q, og, frame) ==
    IF og = <<>>
    THEN [channels |-> chs, queue |-> q, evicted |-> <<>>, path |-> "no_origin",
          pruned |-> FALSE, ret |-> Custom("No origin")]
    ELSE
        LET o == og[1]
            isNew == frame.id \notin DOMAIN chs
            chs1 == IF isNew THEN MapInsert(chs, frame.id, ChannelNew(frame.id, o))
                    ELSE chs
            q1 == IF isNew THEN <<frame.id>> \o q ELSE q
            current_channel == chs1[frame.id]
        IN IF TimedOut(c, current_channel, o)
           THEN [channels |-> chs1, queue |-> q1, evicted |-> <<>>,
                 path |-> "timed_out", pruned |-> FALSE, ret |-> OkUnit]
           ELSE IF AddFrameRejects(current_channel, frame)
           THEN [channels |-> chs1, queue |-> q1, evicted |-> <<>>,
                 path |-> "rejected", pruned |-> FALSE, ret |-> OkUnit]
           ELSE LET chs2 == [chs1 EXCEPT ![frame.id] =
                                 AddFrameAccept(current_channel, frame)]
                    p == PruneBank(chs2, q1)
                IN [channels |-> p.channels, queue |-> p.queue,
                    evicted |-> p.evicted, path |-> "added", pruned |-> TRUE,
                    ret |-> p.ret]

\* an ingest that returns after add_frame without pruning
IngestFrameBankNoPrune(c, chs, q, og, frame) ==
    IF og = <<>>
    THEN [channels |-> chs, queue |-> q, evicted |-> <<>>, path |-> "no_origin",
          pruned |-> FALSE, ret |-> Custom("No origin")]
    ELSE
        LET o == og[1]
            isNew == frame.id \notin DOMAIN chs
            chs1 == IF isNew THEN MapInsert(chs, frame.id, ChannelNew(frame.id, o))
                    ELSE chs
            q1 == IF isNew THEN Append(q, frame.id) ELSE q
            current_channel == chs1[frame.id]
        IN IF TimedOut(c, current_channel, o)
           THEN [channels |-> chs1, queue |-> q1, evicted |-> <<>>,
                 path |-> "timed_out", pruned |-> FALSE, ret |-> OkUnit]
           ELSE IF AddFrameRejects(current_channel, frame)
           THEN [channels |-> chs1, queue |-> q1, evicted |-> <<>>,
                 path |-> "rejected", pruned |-> FALSE, ret |-> OkUnit]
           ELSE [channels |-> [chs1 EXCEPT ![frame.id] =
                                   AddFrameAccept(current_channel, frame)],
                 queue |-> q1, evicted |-> <<>>,
                 path |-> "added", pruned |-> FALSE, ret |-> OkUnit]

\* pruned: whether the call reached self.prune()
IngestFrameBank(c, chs, q, og, frame) ==
    IF og = <<>>
    THEN [channels |-> chs, queue |-> q, evicted |-> <<>>, path |-> "no_origin",
          pruned |-> FALSE, ret |-> Custom("No origin")]
    ELSE
        LET o == og[1]
            isNew == frame.id \notin DOMAIN chs
            chs1 == IF isNew THEN MapInsert(chs, frame.id, ChannelNew(frame.id, o))
                    ELSE chs
            q1 == IF isNew THEN Append(q, frame.id) ELSE q
            current_channel == chs1[frame.id]
        IN IF TimedOut(c, current_channel, o)
           THEN [channels |-> chs1, queue |-> q1, evicted |-> <<>>,
                 path |-> "timed_out", pruned |-> FALSE, ret |-> OkUnit]
           ELSE IF AddFrameRejects(current_channel, frame)
           THEN [channels |-> chs1, queue |-> q1, evicted |-> <<>>,
                 path |-> "rejected", pruned |-> FALSE, ret |-> OkUnit]
           ELSE LET chs2 == [chs1 EXCEPT ![frame.id] =
                                 AddFrameAccept(current_channel, frame)]
                    p == PruneBank(chs2, q1)
                IN [channels |-> p.channels, queue |-> p.queue,
                    evicted |-> p.evicted, path |-> "added", pruned |-> TRUE,
                    ret |-> p.ret]

----------------------------------------------------------------------------
(* Reading.  A result names the queue indices the call removed. *)

RemoveAt(q, index) == SubSeq(q, 1, index) \o SubSeq(q, index + 2, Len(q))

\* a read that hands out a ready channel's data and keeps the channel
TryReadChannelAtIndexKeep(c, chs, q, og, index) ==
    IF index >= Len(q)
    THEN [channels |-> chs, queue |-> q, removed |-> <<>>, ret |-> Panic]
    ELSE
        LET channel_id == q[index + 1] IN
        IF channel_id \notin DOMAIN chs
        THEN [channels |-> chs, queue |-> q, removed |-> <<>>,
              ret |-> Custom("Channel not found")]
        ELSE IF og = <<>>
        THEN [channels |-> chs, queue |-> q, removed |-> <<>>,
              ret |-> Custom("No origin present")]
        ELSE
            LET channel == chs[channel_id]
                timed_out == TimedOut(c, channel, og[1])
            IN IF timed_out \/ ~IsReady(channel)
               THEN [channels |-> chs, queue |-> q, removed |-> <<>>, ret |-> Eof]
               ELSE [channels |-> chs, queue |-> q, removed |-> <<>>,
                     ret |-> IF FrameDataOk(channel)
                             THEN OkBytes(FrameData(channel))
                             ELSE Custom("Frame not found")]

\* a read that drops a channel it finds not ready and reports Eof
TryReadChannelAtIndexDrop(c, chs, q, og, index) ==
    IF index >= Len(q)
    THEN [channels |-> chs, queue |-> q, removed |-> <<>>, ret |-> Panic]
    ELSE
        LET channel_id == q[index + 1] IN
        IF channel_id \notin DOMAIN chs
        THEN [channels |-> chs, queue |-> q, removed |-> <<>>,
              ret |-> Custom("Channel not found")]
        ELSE IF og = <<>>
        THEN [channels |-> chs, queue |-> q, removed |-> <<>>,
              ret |-> Custom("No origin present")]
        ELSE
            LET channel == chs[channel_id]
                timed_out == TimedOut(c, channel, og[1])
            IN IF timed_out \/ ~IsReady(channel)
               THEN [channels |-> MapRemove(chs, channel_id),
                     queue |-> RemoveAt(q, index),
                     removed |-> <<index>>, ret |-> Eof]
               ELSE [channels |-> MapRemove(chs, channel_id),
                     queue |-> RemoveAt(q, index),
                     removed |-> <<index>>,
                     ret |-> IF FrameDataOk(channel)
                             THEN OkBytes(FrameData(channel))
                             ELSE Custom("Frame not found")]

TryReadChannelAtIndex(c, chs, q, og, index) ==
    IF index >= Len(q)
    THEN [channels |-> chs, queue |-> q, removed |-> <<>>, ret |-> Panic]
    ELSE
        LET channel_id == q[index + 1] IN
        IF channel_id \notin DOMAIN chs
        THEN [channels |-> chs, queue |-> q, removed |-> <<>>,
              ret |-> Custom("Channel not found")]
        ELSE IF og = <<>>
        THEN [channels |-> chs, queue |-> q, removed |-> <<>>,
              ret |-> Custom("No origin present")]
        ELSE
            LET channel == chs[channel_id]
                timed_out == TimedOut(c, channel, og[1])
            IN IF timed_out \/ ~IsReady(channel)
               THEN [channels |-> chs, queue |-> q, removed |-> <<>>, ret |-> Eof]
               ELSE [channels |-> MapRemove(chs, channel_id),
                     queue |-> RemoveAt(q, index),
                     removed |-> <<index>>,
                     ret |-> IF FrameDataOk(channel)
                             THEN OkBytes(FrameData(channel))
                             ELSE Custom("Frame not found")]

\* (0..len).find_map(|i| self.try_read_channel_at_index(i).ok())
RECURSIVE FindMapRead(_, _, _, _, _, _, _)
FindMapRead(c, chs, q, og, i, len, removed) ==
    IF i >= len
    THEN [channels |-> chs, queue |-> q, removed |-> removed, ret |-> Eof]
    ELSE LET r == TryReadChannelAtIndex(c, chs, q, og, i) IN
         IF r.ret.tag = "Panic"
         THEN [r EXCEPT !.removed = removed]
         ELSE IF r.ret.tag = "OkBytes"
         THEN [channels |-> r.channels, queue |-> r.queue,
               removed |-> removed \o r.removed, ret |-> OkSome(r.ret.data)]
         ELSE FindMapRead(c, r.channels, r.queue, og, i + 1, len,
                          removed \o r.removed)

\* The timed-out channel at the front is removed: Ok(None)
StripFrontNoPop(chs, q) ==
    [channels |-> MapRemove(chs, q[1]), queue |-> q,
     removed |-> <<0>>, path |-> "timed_out", ret |-> OkNone]

\* a strip that answers Ok(None) and removes nothing
StripFrontKeep(chs, q) ==
    [channels |-> chs, queue |-> q,
     removed |-> <<>>, path |-> "timed_out", ret |-> OkNone]

StripFront(chs, q) ==
    [channels |-> MapRemove(chs, q[1]), queue |-> Tail(q),
     removed |-> <<0>>, path |-> "timed_out", ret |-> OkNone]

PreCanyonRead(c, chs, q, og) ==
    LET r == TryReadChannelAtIndex(c, chs, q, og, 0) IN
    [channels |-> r.channels, queue |-> r.queue, removed |-> r.removed,
     path |-> "pre_canyon",
     ret |-> IF r.ret.tag = "OkBytes" THEN OkSome(r.ret.data) ELSE r.ret]

PostCanyonRead(c, chs, q, og) ==
    LET r == FindMapRead(c, chs, q, og, 0, Len(q), <<>>) IN
    [channels |-> r.channels, queue |-> r.queue, removed |-> r.removed,
     path |-> "post_canyon", ret |-> r.ret]

\* The fork-gated scan policy
ScanPolicyAlwaysScan(c, chs, q, og) == PostCanyonRead(c, chs, q, og)

ScanPolicyHeadOnly(c, chs, q, og) == PreCanyonRead(c, chs, q, og)

ScanPolicy(c, chs, q, og) ==
    IF ~IsCanyonActive(c, og[1].timestamp)
    THEN PreCanyonRead(c, chs, q, og)
    ELSE PostCanyonRead(c, chs, q, og)

ReadBankNoTimeoutStrip(c, chs, q, og) ==
    IF q = <<>>
    THEN [channels |-> chs, queue |-> q, removed |-> <<>>, path |-> "empty",
          ret |-> Eof]
    ELSE
        LET first == q[1] IN
        IF first \notin DOMAIN chs
        THEN [channels |-> chs, queue |-> q, removed |-> <<>>, path |-> "fatal",
              ret |-> Custom("Channel not found")]
        ELSE IF og = <<>>
        THEN [channels |-> chs, queue |-> q, removed |-> <<>>, path |-> "fatal",
              ret |-> Custom("No origin present")]
        ELSE ScanPolicy(c, chs, q, og)

ReadBankOriginFirst(c, chs, q, og) ==
    IF og = <<>>
    THEN [channels |-> chs, queue |-> q, removed |-> <<>>, path |-> "fatal",
          ret |-> Custom("No origin present")]
    ELSE IF q = <<>>
    THEN [channels |-> chs, queue |-> q, removed |-> <<>>, path |-> "empty",
          ret |-> Eof]
    ELSE
        LET first == q[1] IN
        IF first \notin DOMAIN chs
        THEN [channels |-> chs, queue |-> q, removed |-> <<>>, path |-> "fatal",
              ret |-> Custom("Channel not found")]
        ELSE IF TimedOut(c, chs[first], og[1])
        THEN StripFront(chs, q)
        ELSE ScanPolicy(c, chs, q, og)

ReadBank(c, chs, q, og) ==
    IF q = <<>>
    THEN [channels |-> chs, queue |-> q, removed |-> <<>>, path |-> "empty",
          ret |-> Eof]
    ELSE
        LET first == q[1] IN
        IF first \notin DOMAIN chs
        THEN [channels |-> chs, queue |-> q, removed |-> <<>>, path |-> "fatal",
              ret |-> Custom("Channel not found")]
        ELSE IF og = <<>>
        THEN [channels |-> chs, queue |-> q, removed |-> <<>>, path |-> "fatal",
              ret |-> Custom("No origin present")]
        ELSE IF TimedOut(c, chs[first], og[1])
        THEN StripFront(chs, q)
        ELSE ScanPolicy(c, chs, q, og)

----------------------------------------------------------------------------
(* The upstream frame source *)

\* next_frame() yields a frame or an error
UpstreamErrors == {Eof, Custom("upstream")}

\* the upstream stages move the origin to the next base-layer block
UpstreamOrigins(og) ==
    IF og = <<>> THEN {<<[number |-> 0, timestamp |-> 0]>>}
    ELSE IF og[1].number < MaxBlockNumber THEN {<<NextBlock(og[1])>>}
    ELSE {}

\* anyhow!("Error fetching next data from channel bank: {:?}", e)
ErrorFetching(m) ==
    CASE m = "Channel not found" ->
            "Error fetching next data from channel bank: Channel not found"
      [] m = "No origin present" ->
            "Error fetching next data from channel bank: No origin present"
      [] m = "Frame not found" ->
            "Error fetching next data from channel bank: Frame not found"
      [] OTHER -> "Error fetching next data from channel bank"

----------------------------------------------------------------------------
(* The state machine.  A call's result is bound once (\E r \in {...}) and *)
(* then assigned field by field.  last records the completed call: the operation, the *)
(* id of the frame it handled (0: none), the path taken, the ids evicted   *)
(* by prune, the queue indices removed by read, the number of read()       *)
(* attempts and of frames pulled from upstream, and the result.            *)

NoId == 0

Call(op, id, path, evicted, removed, reads, pulled, ret) ==
    [op |-> op, id |-> id, path |-> path, evicted |-> evicted,
     removed |-> removed, reads |-> reads, pulled |-> pulled, ret |-> ret]

Init ==
    /\ channels = <<>>
    /\ channel_queue = <<>>
    /\ origin \in {<<>>, <<[number |-> 0, timestamp |-> 0]>>}
    /\ last = Call("new", NoId, "", <<>>, <<>>, 0, 0, OkUnit)

IngestStep(frame) ==
    \E r \in {IngestFrameBank(cfg, channels, channel_queue, origin, frame)} :
    /\ channels' = r.channels
    /\ channel_queue' = r.queue
    /\ last' = Call("ingest_frame", frame.id, r.path, r.evicted, <<>>, 0, 0, r.ret)
    /\ UNCHANGED origin

IngestFrame == \E frame \in Frames : IngestStep(frame)

Prune ==
    \E p \in {PruneBank(channels, channel_queue)} :
    /\ channels' = p.channels
    /\ channel_queue' = p.queue
    /\ last' = Call("prune", NoId, "", p.evicted, <<>>, 0, 0, p.ret)
    /\ UNCHANGED origin

Read ==
    \E r \in {ReadBank(cfg, channels, channel_queue, origin)} :
    /\ channels' = r.channels
    /\ channel_queue' = r.queue
    /\ last' = Call("read", NoId, r.path, <<>>, r.removed, 1, 0, r.ret)
    /\ UNCHANGED origin

\* a pull loop that reads again after the ingest
NextDataReread ==
    \E r \in {ReadBank(cfg, channels, channel_queue, origin)} :
    /\ IF r.ret.tag = "Eof"
       THEN \/ \E e \in UpstreamErrors :
                  /\ channels' = r.channels
                  /\ channel_queue' = r.queue
                  /\ last' = Call("next_data", NoId, "upstream_err", <<>>,
                                  r.removed, 1, 0, e)
            \/ \E frame \in Frames :
                  \E g \in {IngestFrameBank(cfg, r.channels, r.queue, origin,
                                          frame)} :
                  \E r2 \in {ReadBank(cfg, g.channels, g.queue, origin)} :
                     /\ channels' = r2.channels
                     /\ channel_queue' = r2.queue
                     /\ last' = Call("next_data", frame.id, g.path, g.evicted,
                                     r2.removed, 2, 1,
                                     IF ~IsOk(g.ret) THEN g.ret
                                     ELSE IF IsOk(r2.ret) THEN r2.ret
                                     ELSE NotEnoughData)
       ELSE /\ channels' = r.channels
            /\ channel_queue' = r.queue
            /\ last' = Call("next_data", NoId, r.path, <<>>, r.removed, 1, 0,
                            IF r.ret.tag = "Custom"
                            THEN Custom(ErrorFetching(r.ret.msg))
                            ELSE r.ret)
    /\ UNCHANGED origin

\* a pull loop that reports an upstream error the way it reports a read error
NextDataWrapUpstream ==
    \E r \in {ReadBank(cfg, channels, channel_queue, origin)} :
    /\ IF r.ret.tag = "Eof"
       THEN \/ \E e \in UpstreamErrors :
                  /\ channels' = r.channels
                  /\ channel_queue' = r.queue
                  /\ last' = Call("next_data", NoId, "upstream_err", <<>>,
                                  r.removed, 1, 0,
                                  Custom(ErrorFetching(e.msg)))
            \/ \E frame \in Frames :
                  \E g \in {IngestFrameBank(cfg, r.channels, r.queue, origin,
                                          frame)} :
                     /\ channels' = g.channels
                     /\ channel_queue' = g.queue
                     /\ last' = Call("next_data", frame.id, g.path, g.evicted,
                                     r.removed, 1, 1,
                                     IF IsOk(g.ret) THEN NotEnoughData ELSE g.ret)
       ELSE /\ channels' = r.channels
            /\ channel_queue' = r.queue
            /\ last' = Call("next_data", NoId, r.path, <<>>, r.removed, 1, 0,
                            IF r.ret.tag = "Custom"
                            THEN Custom(ErrorFetching(r.ret.msg))
                            ELSE r.ret)
    /\ UNCHANGED origin

NextData ==
    \E r \in {ReadBank(cfg, channels, channel_queue, origin)} :
    /\ IF r.ret.tag = "Eof"
       THEN \* load the data into the channel bank
            \/ \E e \in UpstreamErrors :
                  /\ channels' = r.channels
                  /\ channel_queue' = r.queue
                  /\ last' = Call("next_data", NoId, "upstream_err", <<>>,
                                  r.removed, 1, 0, e)
            \/ \E frame \in Frames :
                  \E g \in {IngestFrameBank(cfg, r.channels, r.queue, origin,
                                          frame)} :
                     /\ channels' = g.channels
                     /\ channel_queue' = g.queue
                     /\ last' = Call("next_data", frame.id, g.path, g.evicted,
                                     r.removed, 1, 1,
                                     IF IsOk(g.ret) THEN NotEnoughData ELSE g.ret)
       ELSE /\ channels' = r.channels
            /\ channel_queue' = r.queue
            /\ last' = Call("next_data", NoId, r.path, <<>>, r.removed, 1, 0,
                            IF r.ret.tag = "Custom"
                            THEN Custom(ErrorFetching(r.ret.msg))
                            ELSE r.ret)
    /\ UNCHANGED origin

\* a reset that empties the queue and keeps the buffered channels
ResetKeepChannels ==
    /\ channels' = channels
    /\ channel_queue' = <<>>
    /\ last' = Call("reset", NoId, "", <<>>, <<>>, 0, 0, Eof)
    /\ UNCHANGED origin

Reset ==
    /\ channels' = <<>>
    /\ channel_queue' = <<>>
    /\ last' = Call("reset", NoId, "", <<>>, <<>>, 0, 0, Eof)
    /\ UNCHANGED origin

AdvanceOrigin ==
    /\ origin' \in UpstreamOrigins(origin)
    /\ last' = Call("advance_origin", NoId, "", <<>>, <<>>, 0, 0, OkUnit)
    /\ UNCHANGED <<channels, channel_queue>>

Next ==
    \/ IngestFrame
    \/ Prune
    \/ Read
    \/ NextData
    \/ Reset
    \/ AdvanceOrigin

Spec == Init /\ [][Next]_vars

----------------------------------------------------------------------------
(* read over every value of the struct.  The error branches of read and    *)
(* of try_read_channel_at_index are written for banks whose queue names   *)
(* an id the map does not hold; the calls above never produce one, so the *)
(* second specification starts read and next_data from every bank of the  *)
(* struct's type, within the capacity bound.                              *)

\* the channels of one id that hold frame 0, opened at block o
OneFrameChannels(id, o) ==
    {AddFrameAccept(ChannelNew(id, o), f) :
        f \in {g \in Frames : g.id = id /\ g.number = 0}}

\* the maps from a set of ids to such channels
AnyChannels(o) ==
    UNION {{m \in [S -> UNION {OneFrameChannels(id, o) : id \in S}] :
                \A id \in S : m[id].id = id} : S \in SUBSET ChannelIDs}

\* the queues that hold no id twice
AnyQueue ==
    {q \in UNION {[1..n -> ChannelIDs] : n \in 0..NumChannelIDs} :
        \A i, j \in 1..Len(q) : q[i] = q[j] => i = j}

InitAny ==
    /\ origin \in {<<b>> : b \in BlockInfos}
    /\ channels \in {m \in AnyChannels(origin[1]) : Size(m) <= MaxChannelBankSize}
    /\ channel_queue \in AnyQueue
    /\ last = Call("new", NoId, "", <<>>, <<>>, 0, 0, OkUnit)

NextAny ==
    \/ Read
    \/ NextData

SpecAny == InitAny /\ [][NextAny]_vars

----------------------------------------------------------------------------
(* Properties.  They state the conditions of the source directly (the      *)
(* timeout comparison, the Canyon test, the sums of sizes) rather than     *)
(* through the operators of the model above.                               *)

Range(q) == {q[i] : i \in 1..Len(q)}

RECURSIVE TotalSize(_, _)
TotalSize(chs, ids) ==
    IF ids = {} THEN 0
    ELSE LET id == CHOOSE x \in ids : TRUE
         IN chs[id].estimated_size + TotalSize(chs, ids \ {id})

BankSize == TotalSize(channels, DOMAIN channels)

Stale(ch, o) == ch.open_block_number + ChannelTimeout < o.number

CanyonActive(o) == o.timestamp >= CanyonTime

Complete(ch) ==
    /\ ch.highest_seen_is_last # <<>>
    /\ \A n \in 0..ch.highest_seen_is_last[1] : n \in DOMAIN ch.inputs

RECURSIVE Bytes(_, _)
Bytes(ch, n) ==
    IF n > ch.highest_seen_is_last[1] THEN <<>>
    ELSE ch.inputs[n] \o Bytes(ch, n + 1)

Without(q, i) == [j \in 1..(Len(q) - 1) |-> IF j < i THEN q[j] ELSE q[j + 1]]

Restrict(chs, ids) == [id \in ids |-> chs[id]]

\* the bank after the frame was added to its channel, before prune runs
BeforePrune(frame) ==
    LET isNew == frame.id \notin DOMAIN channels
        chs1 == IF isNew
                THEN MapInsert(channels, frame.id, ChannelNew(frame.id, origin[1]))
                ELSE channels
    IN [channels |-> [chs1 EXCEPT ![frame.id] = AddFrameAccept(@, frame)],
        queue |-> IF isNew THEN Append(channel_queue, frame.id)
                  ELSE channel_queue]

\* C1: immediately after every ingest_frame call that returns successfully
\* (frame accepted, rejected by add_frame, or dropped for a timed-out
\* channel) the total buffered size is at most MAX_CHANNEL_BANK_SIZE.
CapacityAfterIngest ==
    (last.op = "ingest_frame" /\ last.ret.tag = "Ok")
        => BankSize <= MaxChannelBankSize

\* an accepted frame forced two evictions and the bound holds afterwards
CapacityWitness ==
    /\ last.op = "ingest_frame"
    /\ last.ret.tag = "Ok"
    /\ last.path = "added"
    /\ Len(last.evicted) = 2

\* C2: in every reachable state and for every frame that ingest_frame adds,
\* the prune that follows evicts from the front of channel_queue, one
\* channel at a time in queue order, whatever the state of the channel and
\* also when it is the channel that just received the frame; it stops as
\* soon as the total size is within the bound (the first j for which the
\* channels behind the j oldest fit), and the channels that remain keep
\* their contents and their queue order.
FifoPruning ==
    origin # <<>> =>
        \A f \in Frames :
            LET r == IngestFrameBank(cfg, channels, channel_queue, origin, f)
                b == BeforePrune(f)
                n == Len(b.queue)
                k == n - Len(r.queue)
            IN r.path = "added" =>
                /\ k >= 0
                /\ r.evicted = SubSeq(b.queue, 1, k)
                /\ r.queue = SubSeq(b.queue, k + 1, n)
                /\ r.channels = Restrict(b.channels, Range(r.queue))
                /\ \A j \in 0..k :
                     (TotalSize(b.channels, Range(SubSeq(b.queue, j + 1, n)))
                         <= MaxChannelBankSize) <=> (j = k)

\* prune evicted the front channel and stopped with a younger one kept
FifoPruningWitness ==
    /\ last.op = "ingest_frame"
    /\ last.path = "added"
    /\ Len(last.evicted) = 1
    /\ channel_queue # <<>>
    /\ last.evicted[1] # last.id

\* C3: after every completed call the queue holds no id twice, the ids of
\* the queue are the keys of the map, and no call has failed with
\* "No channel to prune", "Could not find channel" or "Channel not found".
QueueMapSync ==
    /\ \A i, j \in 1..Len(channel_queue) :
            channel_queue[i] = channel_queue[j] => i = j
    /\ Range(channel_queue) = DOMAIN channels
    /\ last.ret.msg \notin
         {"No channel to prune", "Could not find channel", "Channel not found",
          "Error fetching next data from channel bank: Channel not found"}

\* a read removed the timed-out front channel and left another one queued
QueueMapSyncWitness ==
    /\ last.op = "read"
    /\ last.ret.tag = "OkNone"
    /\ last.removed = <<0>>
    /\ channel_queue # <<>>

\* C4: before Canyon, with the front channel not timed out: if the front
\* channel is not ready, read fails with Eof and leaves map and queue
\* unchanged, even when a later channel is ready; if the front channel is
\* ready, read returns its data.
PreCanyonHeadOfLine ==
    [][(/\ last'.op = "read"
        /\ channel_queue # <<>>
        /\ origin # <<>>
        /\ ~CanyonActive(origin[1])
        /\ ~Stale(channels[channel_queue[1]], origin[1]))
       => LET front == channels[channel_queue[1]] IN
          IF Complete(front)
          THEN /\ last'.ret.tag = "OkSome"
               /\ last'.ret.data = Bytes(front, 0)
          ELSE /\ last'.ret.tag = "Eof"
               /\ channels' = channels
               /\ channel_queue' = channel_queue
      ]_vars

\* a pre-Canyon read failed with Eof behind an unready front channel while
\* the channel at index 1 was ready
PreCanyonWitness ==
    /\ last.op = "read"
    /\ last.ret.tag = "Eof"
    /\ origin # <<>>
    /\ ~CanyonActive(origin[1])
    /\ Len(channel_queue) >= 2
    /\ ~Complete(channels[channel_queue[1]])
    /\ Complete(channels[channel_queue[2]])
    /\ ~Stale(channels[channel_queue[2]], origin[1])

\* C5: after Canyon, with the front channel not timed out: read returns
\* Some(data) of the ready channel with the smallest queue index, removes
\* exactly that channel from map and queue and leaves the others and their
\* order unchanged; with no ready channel it fails with Eof and changes
\* nothing.
PostCanyonFirstReady ==
    [][(/\ last'.op = "read"
        /\ channel_queue # <<>>
        /\ origin # <<>>
        /\ CanyonActive(origin[1])
        /\ ~Stale(channels[channel_queue[1]], origin[1]))
       => LET ready == {i \in 1..Len(channel_queue) :
                            Complete(channels[channel_queue[i]])}
          IN IF ready = {}
             THEN /\ last'.ret.tag = "Eof"
                  /\ channels' = channels
                  /\ channel_queue' = channel_queue
             ELSE LET i == CHOOSE x \in ready : \A y \in ready : x <= y IN
                  /\ last'.ret.tag = "OkSome"
                  /\ last'.ret.data = Bytes(channels[channel_queue[i]], 0)
                  /\ channels' =
                        Restrict(channels, DOMAIN channels \ {channel_queue[i]})
                  /\ channel_queue' = Without(channel_queue, i)
      ]_vars

\* a post-Canyon read returned the channel at index 1 and left the unready
\* front channel queued
PostCanyonWitness ==
    /\ last.op = "read"
    /\ last.ret.tag = "OkSome"
    /\ last.removed = <<1>>
    /\ origin # <<>>
    /\ CanyonActive(origin[1])
    /\ channel_queue # <<>>
    /\ ~Complete(channels[channel_queue[1]])

\* C6: read never returns the data of a timed-out channel, and a read that
\* finds the front channel timed out removes it from map and queue and
\* returns Ok(None), with no data of any channel.
LazyTimeoutOnRead ==
    [][(last'.op = "read" /\ origin # <<>>) =>
         /\ last'.ret.tag = "OkSome" =>
              \A id \in DOMAIN channels \ DOMAIN channels' :
                  ~Stale(channels[id], origin[1])
         /\ (channel_queue # <<>> /\ Stale(channels[channel_queue[1]], origin[1]))
              => /\ last'.ret = OkNone
                 /\ channels' =
                       Restrict(channels, DOMAIN channels \ {channel_queue[1]})
                 /\ channel_queue' = Tail(channel_queue)
      ]_vars

\* a read answered Ok(None) for a timed-out front channel although the next
\* channel in the queue was ready and not timed out
LazyTimeoutWitness ==
    /\ last.op = "read"
    /\ last.ret.tag = "OkNone"
    /\ last.path = "timed_out"
    /\ channel_queue # <<>>
    /\ Complete(channels[channel_queue[1]])
    /\ ~Stale(channels[channel_queue[1]], origin[1])

\* C7: ingest_frame without an origin fails with "No origin" for every
\* frame and leaves map and queue as they were.
NoOriginGuard ==
    [][(last'.op = "ingest_frame" /\ origin = <<>>) =>
            /\ last'.ret = Custom("No origin")
            /\ channels' = channels
            /\ channel_queue' = channel_queue
      ]_vars

\* an ingest failed with "No origin"
NoOriginWitness ==
    /\ last.op = "ingest_frame"
    /\ last.ret.tag = "Custom"
    /\ last.ret.msg = "No origin"
    /\ origin = <<>>

\* C8: read on an empty bank fails with Eof and leaves the bank empty,
\* with or without an origin.
ReadEmptyEof ==
    [][(last'.op = "read" /\ channel_queue = <<>> /\ channels = <<>>) =>
         /\ last'.ret = Eof
         /\ channels' = <<>>
         /\ channel_queue' = <<>>
      ]_vars

\* a read of the empty bank failed with Eof while no origin was known
ReadEmptyWitness ==
    /\ last.op = "read"
    /\ last.ret.tag = "Eof"
    /\ last.path = "empty"
    /\ channel_queue = <<>>
    /\ origin = <<>>

\* C9: in every reachable state with an origin, ingest_frame of a frame for
\* an existing timed-out channel, or of a frame that add_frame rejects,
\* returns success and leaves the map (so the target channel's contents and
\* size) and the queue unchanged: the timed-out channel stays where it is.
FaultsAbsorbed ==
    origin # <<>> =>
        \A f \in Frames :
            (/\ f.id \in DOMAIN channels
             /\ \/ Stale(channels[f.id], origin[1])
                \/ AddFrameRejects(channels[f.id], f))
            => LET r == IngestFrameBank(cfg, channels, channel_queue, origin, f)
               IN /\ r.ret = OkUnit
                  /\ r.channels = channels
                  /\ r.queue = channel_queue

\* a frame for a timed-out channel was dropped and the channel is still
\* in the bank
FaultsAbsorbedWitness ==
    /\ last.op = "ingest_frame"
    /\ last.path = "timed_out"
    /\ last.ret.tag = "Ok"
    /\ last.id \in DOMAIN channels
    /\ Stale(channels[last.id], origin[1])

\* C10: next_data returns the result of read directly, pulling no frame,
\* when read is Ok; it pulls a frame only when read fails with Eof, at most
\* one, and after a successful ingest it returns NotEnoughData without
\* reading again.
OneIngestPerNextData ==
    [][last'.op = "next_data" =>
         \A r \in {ReadBank(cfg, channels, channel_queue, origin)} :
         /\ last'.reads = 1
         /\ last'.pulled \in {0, 1}
         /\ IsOk(r.ret) =>
              /\ last'.ret = r.ret
              /\ last'.pulled = 0
              /\ channels' = r.channels
              /\ channel_queue' = r.queue
         /\ last'.pulled = 1 =>
              /\ r.ret = Eof
              /\ last'.ret.tag \notin {"OkSome", "OkNone"}
              /\ origin # <<>> => last'.ret = NotEnoughData
      ]_vars

\* next_data answered NotEnoughData although the frame it ingested left a
\* ready channel at the front of the queue
OneIngestWitness ==
    /\ last.op = "next_data"
    /\ last.pulled = 1
    /\ last.ret = NotEnoughData
    /\ last.path = "added"
    /\ channel_queue # <<>>
    /\ channel_queue[1] = last.id
    /\ Complete(channels[last.id])
    /\ ~Stale(channels[last.id], origin[1])

\* C11: when read fails with Eof and the upstream next_frame call returns an
\* error (Eof included), next_data returns that error as the upstream gave
\* it, pulls and ingests no frame, and leaves map and queue unchanged.
UpstreamErrorPropagated ==
    [][(last'.op = "next_data" /\ last'.path = "upstream_err") =>
         \A r \in {ReadBank(cfg, channels, channel_queue, origin)} :
         /\ r.ret = Eof
         /\ last'.ret \in UpstreamErrors
         /\ last'.pulled = 0
         /\ last'.evicted = <<>>
         /\ channels' = channels
         /\ channel_queue' = channel_queue
      ]_vars

\* next_data handed on the upstream's own error while a channel that is
\* not ready stayed in the bank
UpstreamErrorWitness ==
    /\ last.op = "next_data"
    /\ last.path = "upstream_err"
    /\ last.ret = Custom("upstream")
    /\ channel_queue # <<>>
    /\ ~Complete(channels[channel_queue[1]])

\* C12: from every reachable state reset empties the map and the queue
\* (total size 0) and reports Eof whatever the bank held; a read right
\* after the reset fails with Eof; and the bytes a read or next_data
\* returns are always those of a channel the bank holds at that call, so
\* nothing buffered before a reset is returned after it unless it was
\* ingested again.
ResetClears ==
    [][/\ last'.op = "reset" =>
            /\ channels' = <<>>
            /\ channel_queue' = <<>>
            /\ TotalSize(channels', DOMAIN channels') = 0
            /\ last'.ret = Eof
            /\ ReadBank(cfg, channels', channel_queue', origin').ret = Eof
       /\ (last.op = "reset" /\ last'.op = "read") =>
            /\ last'.ret = Eof
            /\ channels' = <<>>
            /\ channel_queue' = <<>>
       /\ (last'.op \in {"read", "next_data"} /\ last'.ret.tag = "OkSome") =>
            \E id \in DOMAIN channels \ DOMAIN channels' :
                /\ Complete(channels[id])
                /\ last'.ret.data = Bytes(channels[id], 0)
      ]_vars

\* a reset was called after the origin had moved on, and left nothing
ResetWitness ==
    /\ last.op = "reset"
    /\ last.ret = Eof
    /\ channels = <<>>
    /\ channel_queue = <<>>
    /\ origin # <<>>
    /\ origin[1].number >= 1

\* whether read considers the channel: it is at the front of the queue, or
\* Canyon is active, the front is not timed out and no channel before it
\* in the queue is complete
Eligible(id) ==
    \/ id = channel_queue[1]
    \/ /\ CanyonActive(origin[1])
       /\ ~Stale(channels[channel_queue[1]], origin[1])
       /\ \A i \in 1..Len(channel_queue) :
             Complete(channels[channel_queue[i]]) =>
                 \E j \in 1..i : channel_queue[j] = id

\* C13 as stated: a channel that holds frames 0..N with frame N terminal,
\* each ingested once, is eventually returned by read; so, short of a
\* reset, it never leaves the bank in another way than by a call that
\* returns the concatenation of its payloads in frame_number order.
CompleteChannelAlwaysRead ==
    [][\A id \in DOMAIN channels :
          (/\ Complete(channels[id])
           /\ id \notin DOMAIN channels'
           /\ last'.op # "reset") =>
              /\ last'.op \in {"read", "next_data"}
              /\ last'.ret = OkSome(Bytes(channels[id], 0))
      ]_vars

\* C13, amended: a channel that holds frames 0..N with frame N terminal,
\* ingested in whatever order, keeps its contents while it is in the bank;
\* a read for which it is eligible and not timed out returns the
\* concatenation of its payloads in frame_number order and removes it and
\* nothing else; and it leaves the bank only by such a read, by the strip of
\* a timed-out front (Ok(None)), by an eviction of prune, or by reset.
CompleteChannelRead ==
    [][\A id \in DOMAIN channels :
          Complete(channels[id]) =>
              /\ id \in DOMAIN channels' => channels'[id] = channels[id]
              /\ id \notin DOMAIN channels' =>
                    \/ /\ last'.op \in {"read", "next_data"}
                       /\ last'.ret = OkSome(Bytes(channels[id], 0))
                       /\ channels' = Restrict(channels, DOMAIN channels \ {id})
                       /\ Range(channel_queue') = Range(channel_queue) \ {id}
                    \/ /\ last'.op \in {"read", "next_data"}
                       /\ last'.ret.tag # "OkSome"
                       /\ last'.removed = <<0>>
                       /\ id = channel_queue[1]
                       /\ Stale(channels[id], origin[1])
                    \/ /\ last'.op \in {"ingest_frame", "next_data"}
                       /\ id \in Range(last'.evicted)
                    \/ last'.op = "reset"
              /\ (/\ last'.op = "read"
                  /\ origin # <<>>
                  /\ ~Stale(channels[id], origin[1])
                  /\ Eligible(id)) =>
                    /\ last'.ret = OkSome(Bytes(channels[id], 0))
                    /\ id \notin DOMAIN channels'
      ]_vars

\* a read returned the bytes of a channel of two frames, frame 0 first
CompleteChannelWitness ==
    /\ last.op = "read"
    /\ last.ret = OkSome(<<8, 9, 7>>)
    /\ last.removed = <<0>>

\* the frame is one the bank already accepted: its channel is in the bank
\* and not timed out, and holds this frame number with these bytes and
\* this terminal mark
Held(f) ==
    /\ origin # <<>>
    /\ f.id \in DOMAIN channels
    /\ ~Stale(channels[f.id], origin[1])
    /\ f.number \in DOMAIN channels[f.id].inputs
    /\ channels[f.id].inputs[f.number] = f.data
    /\ f.is_last <=> (channels[f.id].highest_seen_is_last = <<f.number>>)

\* C14: in every reachable state, ingesting again a frame the bank already
\* accepted, for a channel still in the bank and not timed out, returns no
\* error and changes neither that channel's estimated_size, nor the total
\* size, nor the keys of the map, nor the queue.
DuplicateTolerated ==
    \A f \in Frames :
        Held(f) =>
            LET r == IngestFrameBank(cfg, channels, channel_queue, origin, f)
            IN /\ IsOk(r.ret)
               /\ DOMAIN r.channels = DOMAIN channels
               /\ r.channels[f.id].estimated_size = channels[f.id].estimated_size
               /\ TotalSize(r.channels, DOMAIN r.channels) = BankSize
               /\ r.queue = channel_queue
               /\ r.evicted = <<>>

\* the state reached by ingesting a second time the second frame of a
\* channel: the call before left this very state
DuplicateWitness ==
    \E f \in Frames :
        /\ Held(f)
        /\ f.number = 1
        /\ 0 \in DOMAIN channels[f.id].inputs
        /\ \E r \in {IngestFrameBank(cfg, channels, channel_queue, origin, f)} :
              /\ r.channels = channels
              /\ r.queue = channel_queue
              /\ last = Call("ingest_frame", f.id, r.path, r.evicted, <<>>,
                             0, 0, r.ret)

\* read comes to look up an id of the queue that the map does not hold: the
\* id is at the front, or Canyon is active and the scan reaches it, every
\* channel before it being held and not returnable
MissingReached ==
    /\ origin # <<>>
    /\ \E i \in 1..Len(channel_queue) :
          /\ channel_queue[i] \notin DOMAIN channels
          /\ \/ i = 1
             \/ /\ CanyonActive(origin[1])
                /\ \A j \in 1..(i - 1) :
                      /\ channel_queue[j] \in DOMAIN channels
                      /\ ~Stale(channels[channel_queue[j]], origin[1])
                      /\ ~Complete(channels[channel_queue[j]])

PruneOnEveryPath ==
    origin # <<>> =>
        \A f \in Frames :
            IngestFrameBank(cfg, channels, channel_queue, origin, f).pruned

QueueOrdered ==
    LET open(i) == channels[channel_queue[i]].open_block_number
        stale(i) == Stale(channels[channel_queue[i]], origin[1])
        n == Len(channel_queue)
    IN /\ \A i, j \in 1..n : i < j => open(i) <= open(j)
       /\ origin = <<>> => n = 0
       /\ origin # <<>> =>
            /\ \A i \in 1..n : open(i) <= origin[1].number
            /\ (n > 0 /\ ~stale(1)) => \A i \in 1..n : ~stale(i)
            /\ \A i, j \in 1..n : (i < j /\ stale(j)) => stale(i)

\* a timed-out channel at the front with a younger channel behind it that
\* is not timed out
QueueOrderedWitness ==
    /\ Len(channel_queue) >= 2
    /\ origin # <<>>
    /\ Stale(channels[channel_queue[1]], origin[1])
    /\ ~Stale(channels[channel_queue[2]], origin[1])
    /\ channels[channel_queue[1]].open_block_number
           < channels[channel_queue[2]].open_block_number

\* read called again and again on the bank (chs, q), nothing ingested in
\* between: the number of Ok(None) results up to the first other result,
\* and that result; at most fuel calls are made
RECURSIVE NoneRun(_, _, _)
NoneRun(chs, q, fuel) ==
    LET r == ReadBank(cfg, chs, q, origin) IN
    IF fuel = 0 \/ r.ret # OkNone THEN [n |-> 0, ret |-> r.ret]
    ELSE LET rest == NoneRun(r.channels, r.queue, fuel - 1)
         IN [n |-> rest.n + 1, ret |-> rest.ret]

\* C19: in every reachable state, a read that returns Ok(None) removes the
\* timed-out front channel from map and queue and nothing else; and reads
\* repeated on a bank of k channels with no ingestion in between return
\* Ok(None) at most k times before one returns Some(data) or fails with
\* Eof.
NoneRunBounded ==
    LET r == ReadBank(cfg, channels, channel_queue, origin)
        k == Len(channel_queue)
        run == NoneRun(channels, channel_queue, k + 1)
    IN /\ r.ret = OkNone =>
            /\ origin # <<>>
            /\ k > 0
            /\ Stale(channels[channel_queue[1]], origin[1])
            /\ r.queue = Tail(channel_queue)
            /\ r.channels =
                  Restrict(channels, DOMAIN channels \ {channel_queue[1]})
       /\ run.n <= k
       /\ run.ret.tag \in {"OkSome", "Eof"}

\* a read answered Ok(None) and the next one will too: every channel still
\* in the bank is timed out
NoneRunWitness ==
    /\ last.op = "read"
    /\ last.ret = OkNone
    /\ channel_queue # <<>>
    /\ NoneRun(channels, channel_queue, Len(channel_queue) + 1).n
           = Len(channel_queue)

\* C20: in every reachable state a read removes at most one channel, and
\* only when it returns Some(data) or Ok(None); what it removes is one
\* entry of the queue together with its channel, the rest staying as it
\* was; a read that fails with Eof changes neither map nor queue; and the
\* scan never goes on after a removal, so it neither indexes the queue out
\* of bounds nor drops a channel without returning its data.
ReadRemovesAtMostOne ==
    LET r == ReadBank(cfg, channels, channel_queue, origin) IN
    /\ Len(r.removed) <= 1
    /\ r.ret.tag # "Panic"
    /\ r.channels = Restrict(channels, DOMAIN r.channels)
    /\ Cardinality(DOMAIN channels \ DOMAIN r.channels) = Len(r.removed)
    /\ r.removed = <<>> =>
          /\ r.channels = channels
          /\ r.queue = channel_queue
    /\ r.removed # <<>> =>
          /\ r.ret.tag \in {"OkSome", "OkNone"}
          /\ r.queue = Without(channel_queue, r.removed[1] + 1)
          /\ DOMAIN r.channels = DOMAIN channels \ {channel_queue[r.removed[1] + 1]}
          /\ r.ret.tag = "OkSome" =>
                r.ret.data = Bytes(channels[channel_queue[r.removed[1] + 1]], 0)
    /\ r.ret.tag \notin {"OkSome", "OkNone"} =>
          /\ r.channels = channels
          /\ r.queue = channel_queue

\* a post-Canyon read went through a queue of two channels, found none
\* ready, failed with Eof and left both in place
ReadRemovesWitness ==
    /\ last.op = "read"
    /\ last.path = "post_canyon"
    /\ last.ret = Eof
    /\ last.removed = <<>>
    /\ Len(channel_queue) >= 2

====
